---- MODULE Spec2Model ----
(***************************************************************************)
(* A model of XElement (x-element.js): the component runtime that binds    *)
(* component definitions (subclasses of XElement) to nodes of the host     *)
(* document, builds declared children, merges templates, applies styles    *)
(* and bridges CSS animations to promises.                                 *)
(*                                                                         *)
(* The host document is a forest of nodes kept in document order: every    *)
(* entry carries its depth, so the descendants of an entry are the entries *)
(* that follow it with a greater depth.  The first tree of the forest is   *)
(* the document; the trees after it are detached elements                  *)
(* (document.createElement).  Markup (a template, a captured innerHTML) is *)
(* the same sequence without node identities.                              *)
(***************************************************************************)
EXTENDS Integers, Sequences, FiniteSets, TLC

(***************************************************************************)
(* Bounds of the model.                                                    *)
(***************************************************************************)
\* top-level `new` calls issued by the surrounding application in one run
MaxNews == 2
\* animate() calls issued in one run
MaxSessions == 2
\* animationend events the host dispatches in one run
MaxSignals == 2
\* listenOnce() calls issued in one run
MaxOnces == 2
\* events of the listened types dispatched in one run
MaxPings == 2
\* the length of the type identifiers that are converted
MaxIdent == 4
\* constructor calls the call stack of the engine holds
MaxStack == 4

(***************************************************************************)
(* Characters and identifiers.  A type identifier, a tag identifier and a  *)
(* field name are sequences of one-character strings.                      *)
(***************************************************************************)
UpperSeq == <<"A","B","C","D","E","F","G","H","I","J","K","L","M",
              "N","O","P","Q","R","S","T","U","V","W","X","Y","Z">>
LowerSeq == <<"a","b","c","d","e","f","g","h","i","j","k","l","m",
              "n","o","p","q","r","s","t","u","v","w","x","y","z">>

\* the character class [A-Z]
IsUpper(c) == \E i \in 1..Len(UpperSeq) : UpperSeq[i] = c

\* the character class [a-z]
IsLower(c) == \E i \in 1..Len(LowerSeq) : LowerSeq[i] = c

\* String.prototype.toLowerCase, one character
ToLowerCase(c) ==
    IF IsUpper(c)
    THEN LowerSeq[CHOOSE i \in 1..Len(UpperSeq) : UpperSeq[i] = c]
    ELSE c

\* a conversion that lower-cases and joins without the hyphens
RECURSIVE TagWithoutHyphens(_, _)
TagWithoutHyphens(name, i) ==
    IF i > Len(name) THEN <<>>
    ELSE <<ToLowerCase(name[i])>> \o TagWithoutHyphens(name, i + 1)

\* the lower-cased pieces of name from index i on, each piece that begins at
\* an uppercase letter other than the first joined on with a hyphen
RECURSIVE TagFrom(_, _)
TagFrom(name, i) ==
    IF i > Len(name) THEN <<>>
    ELSE (IF i > 1 /\ IsUpper(name[i]) THEN <<"-">> ELSE <<>>)
         \o <<ToLowerCase(name[i])>> \o TagFrom(name, i + 1)

\* name.split(/(?=[A-Z])/).join('-').toLowerCase()
ToTagName(name) == TagFrom(name, 1)

\* a match on any uppercase letter followed by an uppercase letter
MatchesAnyPrefix(name) == Len(name) >= 2 /\ IsUpper(name[1]) /\ IsUpper(name[2])

\* name.match(/^X[A-Z][a-z]*/): a literal X followed by an uppercase letter
MatchesXPrefix(name) == Len(name) >= 2 /\ name[1] = "X" /\ IsUpper(name[2])

\* '$' + name[0].toLowerCase() + name.substring(1), after stripping a matched X
ToChildName(name) ==
    LET n == IF MatchesXPrefix(name) THEN Tail(name) ELSE name
    IN  <<"$", ToLowerCase(Head(n))>> \o Tail(n)

\* the field of a repeated child: __toChildName() + 's'
ToArrayName(name) == ToChildName(name) \o <<"s">>

(***************************************************************************)
(* Markup and the node forest.                                             *)
(***************************************************************************)
\* a text node with visible characters, and one of white space only
TextTag == <<"#">>
WsTag == <<" ">>

IsElement(e) == e.tag # TextTag /\ e.tag # WsTag

\* an element of markup: init is the x-initialized attribute, slot the
\* content attribute, cls the class list
El(tag, depth, init, slot, cls) ==
    [tag |-> tag, depth |-> depth, init |-> init, slot |-> slot, cls |-> cls]

Text(depth) == El(TextTag, depth, FALSE, FALSE, <<>>)
Ws(depth) == El(WsTag, depth, FALSE, FALSE, <<>>)

\* a node of the forest: an element of markup with an identity; xDebug is the
\* node's expando property, which no markup carries
Node(id, e, depth) ==
    [id |-> id, tag |-> e.tag, depth |-> depth, init |-> e.init,
     slot |-> e.slot, cls |-> e.cls, xDebug |-> 0]

\* the last index of the subtree rooted at index i
End(d, i) ==
    CHOOSE j \in i..Len(d) :
        /\ \A k \in (i + 1)..j : d[k].depth > d[i].depth
        /\ j = Len(d) \/ d[j + 1].depth <= d[i].depth

\* the indices of the descendants of entry i, in document order
Desc(d, i) == (i + 1)..End(d, i)

\* the index of the node with identity id, 0 when the forest has none
IndexOf(d, id) ==
    IF \E i \in 1..Len(d) : d[i].id = id
    THEN CHOOSE i \in 1..Len(d) : d[i].id = id
    ELSE 0

\* the least index of a set of indices, 0 for the empty set
First(S) == IF S = {} THEN 0 ELSE CHOOSE i \in S : \A j \in S : i <= j

\* the elements of S in increasing order
RECURSIVE Ordered(_)
Ordered(S) == IF S = {} THEN <<>> ELSE <<First(S)>> \o Ordered(S \ {First(S)})

\* the indices among S that the selector tag, or tag:not([x-initialized]), matches
Matching(d, S, tag, unclaimed) ==
    {i \in S : d[i].tag = tag /\ (unclaimed => ~d[i].init)}

\* the indices among S that the selector [content] matches
Slots(d, S) == {i \in S : IsElement(d[i]) /\ d[i].slot}

\* element.innerHTML read: the descendants of entry i as markup
InnerHTML(d, i) ==
    [k \in 1..(End(d, i) - i) |->
        El(d[i + k].tag, d[i + k].depth - d[i].depth - 1,
           d[i + k].init, d[i + k].slot, d[i + k].cls)]

\* String.prototype.trim on markup: white space at either end is dropped
RECURSIVE Trim(_)
Trim(m) ==
    IF m = <<>> THEN m
    ELSE IF m[1].tag = WsTag THEN Trim(Tail(m))
    ELSE IF m[Len(m)].tag = WsTag /\ m[Len(m)].depth = 0
         THEN Trim(SubSeq(m, 1, Len(m) - 1))
    ELSE m

\* element.innerHTML = m: the descendants of entry i are replaced by fresh
\* nodes parsed from m, numbered from nid
SetInnerHTML(d, i, m, nid) ==
    SubSeq(d, 1, i)
    \o [k \in 1..Len(m) |-> Node(nid + k - 1, m[k], d[i].depth + 1 + m[k].depth)]
    \o SubSeq(d, End(d, i) + 1, Len(d))

\* the document: the first tree of the forest
DocumentIdx(d) == 1..End(d, 1)

(***************************************************************************)
(* Component definitions: the subclasses of XElement the application       *)
(* declares.  A definition may declare children(), styles(), html() and    *)
(* onCreate(), and may extend another definition.                          *)
(*                                                                         *)
(* The constructor assigns this.children = null and this.styles = null     *)
(* before it binds.  Where the class declares children() or styles() as an *)
(* ordinary prototype method, that assignment creates an own property that *)
(* shadows the method ("method").  The declaration is still in place when  *)
(* __createChildren and __bindDOM read it only where the class declares it *)
(* as an accessor pair whose setter keeps the declaration ("accessor").    *)
(* html and onCreate are never assigned and are found on the prototype     *)
(* chain.                                                                  *)
(***************************************************************************)
One(def) == [def |-> def, many |-> FALSE]
Many(def) == [def |-> def, many |-> TRUE]

Leaf(name) ==
    [name |-> name, base |-> "XElement",
     childrenVia |-> "none", children |-> <<>>,
     stylesVia |-> "none", styles |-> <<>>,
     hasHtml |-> FALSE, html |-> <<>>, onCreate |-> TRUE]

TRow == <<"r","o","w">>
TItem == <<"i","t","e","m">>
TCard == <<"c","a","r","d">>
TDuo == <<"d","u","o">>
TGrid == <<"g","r","i","d">>
TList == <<"l","i","s","t">>
TForm == <<"f","o","r","m">>
TApp == <<"a","p","p">>
TPane == <<"p","a","n","e">>
TXa == <<"x","-","a">>
TXb == <<"x","-","b">>
TBox == <<"b","o","x">>
TNest == <<"n","e","s","t">>
TTree == <<"t","r","e","e">>
TBody == <<"b","o","d","y">>
TDiv == <<"d","i","v">>
TPair == <<"p","a","i","r">>
TLoop == <<"l","o","o","p">>

Definitions ==
    [Row  |-> Leaf(<<"R","o","w">>),
     Item |-> [Leaf(<<"I","t","e","m">>) EXCEPT
                 !.hasHtml = TRUE,
                 !.html = <<Ws(0), El(TDiv, 0, FALSE, FALSE, <<>>), Ws(0)>>],
     Card |-> [Leaf(<<"C","a","r","d">>) EXCEPT
                 !.hasHtml = TRUE,
                 !.html = <<El(TDiv, 0, FALSE, FALSE, <<"head">>),
                            El(TDiv, 0, FALSE, TRUE, <<>>), Text(1), Ws(0)>>,
                 !.stylesVia = "accessor", !.styles = <<"card">>],
     Duo  |-> [Leaf(<<"D","u","o">>) EXCEPT
                 !.hasHtml = TRUE,
                 !.html = <<El(TDiv, 0, FALSE, FALSE, <<>>),
                            El(TDiv, 1, FALSE, TRUE, <<>>),
                            El(TDiv, 0, FALSE, TRUE, <<>>)>>],
     Grid |-> [Leaf(<<"G","r","i","d">>) EXCEPT
                 !.childrenVia = "accessor",
                 !.children = <<Many("Row"), Many("Row"), Many("Row")>>],
     List |-> [Leaf(<<"L","i","s","t">>) EXCEPT
                 !.childrenVia = "accessor",
                 !.children = <<Many("Item")>>],
     Form |-> [Leaf(<<"F","o","r","m">>) EXCEPT
                 !.childrenVia = "accessor",
                 !.children = <<One("Card"), One("Row"), One("Item")>>],
     App  |-> [Leaf(<<"A","p","p">>) EXCEPT
                 !.childrenVia = "accessor",
                 !.children = <<One("Form"), One("Pane")>>],
     Pane |-> [Leaf(<<"P","a","n","e">>) EXCEPT
                 !.childrenVia = "method",
                 !.children = <<One("Row")>>,
                 !.stylesVia = "method", !.styles = <<"pane">>],
     Box  |-> [Leaf(<<"B","o","x">>) EXCEPT
                 !.hasHtml = TRUE,
                 !.html = <<El(TRow, 0, FALSE, FALSE, <<>>),
                            El(TDiv, 0, FALSE, TRUE, <<>>)>>,
                 !.childrenVia = "accessor",
                 !.children = <<One("Row")>>],
     Nest |-> [Leaf(<<"N","e","s","t">>) EXCEPT
                 !.hasHtml = TRUE,
                 !.html = <<El(TNest, 0, FALSE, FALSE, <<>>)>>],
     Tree |-> [Leaf(<<"T","r","e","e">>) EXCEPT
                 !.childrenVia = "accessor",
                 !.children = <<One("Box"), One("Nest"), One("Row")>>],
     Pair |-> [Leaf(<<"P","a","i","r">>) EXCEPT
                 !.childrenVia = "accessor",
                 !.children = <<One("Row"), One("Row")>>],
     Loop |-> [Leaf(<<"L","o","o","p">>) EXCEPT
                 !.hasHtml = TRUE,
                 !.html = <<El(TLoop, 0, FALSE, FALSE, <<>>)>>,
                 !.childrenVia = "accessor",
                 !.children = <<One("Loop")>>],
     XA   |-> [Leaf(<<"X","A">>) EXCEPT
                 !.stylesVia = "accessor", !.styles = <<"a1">>],
     XB   |-> [Leaf(<<"X","B">>) EXCEPT
                 !.base = "XA",
                 !.stylesVia = "accessor", !.styles = <<"b1">>]]

DefNames == DOMAIN Definitions

\* the inheritance chain of a definition, most derived first
RECURSIVE Chain(_)
Chain(c) == IF c = "XElement" THEN <<>> ELSE <<c>> \o Chain(Definitions[c].base)

\* the first class of the chain that satisfies P, "XElement" when none does
FirstIn(chain, P(_)) ==
    IF \E i \in 1..Len(chain) : P(chain[i])
    THEN chain[First({i \in 1..Len(chain) : P(chain[i])})]
    ELSE "XElement"

DeclaresChildren(c) == Definitions[c].childrenVia # "none"
DeclaresStyles(c) == Definitions[c].stylesVia # "none"
DeclaresHtml(c) == Definitions[c].hasHtml

\* this.children as __createChildren reads it: the constructor's null, unless
\* the declaration found on the prototype chain is an accessor
ThisChildren(c) ==
    LET k == FirstIn(Chain(c), DeclaresChildren)
    IN  IF k # "XElement" /\ Definitions[k].childrenVia = "accessor"
        THEN [null |-> FALSE, list |-> Definitions[k].children]
        ELSE [null |-> TRUE, list |-> <<>>]

\* this.styles as __bindDOM reads it
ThisStyles(c) ==
    LET k == FirstIn(Chain(c), DeclaresStyles)
    IN  IF k # "XElement" /\ Definitions[k].stylesVia = "accessor"
        THEN [null |-> FALSE, list |-> Definitions[k].styles]
        ELSE [null |-> TRUE, list |-> <<>>]

\* super.styles inside XElement.prototype.__bindStyles: super is the prototype
\* of XElement.prototype, Object.prototype, which has no styles
SuperStyles(c) == [null |-> TRUE, list |-> <<>>]

\* this.html
ThisHtml(c) ==
    LET k == FirstIn(Chain(c), DeclaresHtml)
    IN  IF k # "XElement"
        THEN [null |-> FALSE, markup |-> Definitions[k].html]
        ELSE [null |-> TRUE, markup |-> <<>>]

\* this.onCreate
ThisOnCreate(c) == \E i \in 1..Len(Chain(c)) : Definitions[Chain(c)[i]].onCreate

\* this.__tagName
TagName(c) == ToTagName(Definitions[c].name)

(***************************************************************************)
(* The documents and the calls the surrounding application makes.          *)
(***************************************************************************)
E(tag, depth) == El(tag, depth, FALSE, FALSE, <<>>)
Claimed(tag, depth) == El(tag, depth, TRUE, FALSE, <<>>)

Call(def, how) == [def |-> def, how |-> how]

\* a grid with five unclaimed and two claimed rows
GridDoc ==
    <<E(TBody, 0), E(TGrid, 1), E(TRow, 2), Claimed(TRow, 2), E(TRow, 2),
      E(TRow, 2), Claimed(TRow, 2), E(TRow, 2), E(TRow, 2)>>

\* a list whose first item holds an item of its own
ListDoc ==
    <<E(TBody, 0), E(TList, 1), E(TItem, 2), E(TItem, 3), E(TItem, 2)>>

\* an application whose form lacks its row; a pane without a row
AppDoc ==
    <<E(TBody, 0), E(TApp, 1), E(TForm, 2), E(TCard, 3), Text(4), E(TItem, 3),
      E(TPane, 2)>>

\* a form that has every declared child twice over
FormDoc ==
    <<E(TBody, 0), E(TForm, 1), E(TRow, 2), E(TCard, 2), E(TItem, 3), E(TRow, 3),
      E(TItem, 2), E(TCard, 2), E(TRow, 2)>>

\* cards and a duo with text, white space, elements or nothing inside
CardDoc ==
    <<E(TBody, 0), E(TCard, 1), Ws(2), Text(2), E(TRow, 2), Ws(2),
      E(TCard, 1), Ws(2), E(TDuo, 1), Claimed(TRow, 2), E(TItem, 1), Text(2),
      E(TCard, 1)>>

\* nodes of a base and of a derived definition, one already carrying classes
StyleDoc ==
    <<E(TBody, 0), El(TXb, 1, FALSE, FALSE, <<"b1", "old">>), E(TRow, 2),
      E(TXa, 1), E(TXb, 1), E(TRow, 1)>>

\* a tree whose box gets its row from the box's template, and whose nest has
\* a template that holds a nest
TreeDoc ==
    <<E(TBody, 0), E(TTree, 1), E(TBox, 2), Text(3), E(TNest, 2), E(TRow, 2)>>

\* a pair with the two rows it declares
PairDoc ==
    <<E(TBody, 0), E(TPair, 1), E(TRow, 2), E(TRow, 2)>>

\* a loop: its definition has a template that holds a loop, and declares a
\* loop as its child
LoopDoc ==
    <<E(TBody, 0), E(TLoop, 1)>>

\* an animated component with a row inside it and a row outside it
AnimDoc ==
    <<E(TBody, 0), E(TXa, 1), E(TRow, 2), E(TRow, 1)>>

\* a listening component with a row inside it
OnceDoc ==
    <<E(TBody, 0), E(TXa, 1), E(TRow, 2)>>

\* a scenario without animation: a document and the constructor calls made on it
Scene(doc, calls) ==
    [doc |-> doc, news |-> calls, once |-> FALSE,
     animators |-> {}, targets |-> {}, anims |-> {}, listens |-> {}]

\* the arguments of an animate() call other than its target
Anim(cls, afterStart, beforeEnd) ==
    [cls |-> cls, afterStart |-> afterStart, beforeEnd |-> beforeEnd]

\* a scenario with animation: one XA is constructed and animates itself or a row
AnimScene(anims) ==
    [doc |-> AnimDoc, news |-> {Call("XA", "document")}, once |-> TRUE,
     animators |-> {"XA"}, targets |-> {TRow}, anims |-> anims, listens |-> {}]

\* the arguments of a listenOnce() call other than its node: the event type
\* and what the callback does (returns, throws, or dispatches the event again)
Listen(type, callback) == [type |-> type, callback |-> callback]

\* a scenario with listenOnce: one XA is constructed and listens on itself or
\* on a row
OnceScene(listens) ==
    [doc |-> OnceDoc, news |-> {Call("XA", "document")}, once |-> TRUE,
     animators |-> {}, targets |-> {TRow}, anims |-> {}, listens |-> listens]

Scenarios ==
    <<Scene(GridDoc, {Call("Grid", "document"), Call("Row", "document"),
                      Call("Row", "element"), Call("Row", "parent")}),
      Scene(ListDoc, {Call("List", "document"), Call("Item", "parent")}),
      Scene(AppDoc, {Call("App", "document"), Call("Form", "document"),
                     Call("Pane", "document"), Call("Row", "create")}),
      Scene(FormDoc, {Call("Form", "document"), Call("Form", "element"),
                      Call("Card", "parent")}),
      Scene(CardDoc, {Call("Card", "document"), Call("Card", "element"),
                      Call("Duo", "document"), Call("Item", "document"),
                      Call("Card", "create")}),
      Scene(StyleDoc, {Call("XB", "document"), Call("XB", "element"),
                       Call("XA", "document"), Call("Row", "parent")}),
      Scene(TreeDoc, {Call("Tree", "document"), Call("Box", "document"),
                      Call("Nest", "parent")}),
      AnimScene({Anim("pulse", "ok", "ok"), Anim("fade", "none", "none")}),
      AnimScene({Anim("pulse", "throws", "ok"), Anim("pulse", "ok", "throws")}),
      OnceScene({Listen("ping", "fires"), Listen("ping", "throws"),
                 Listen("pong", "ok")}),
      Scene(PairDoc, {Call("Pair", "document")}),
      Scene(LoopDoc, {Call("Loop", "document")})>>

(***************************************************************************)
(* State.                                                                  *)
(***************************************************************************)
VARIABLES
    scn,        \* the scenario: the document and the calls of the application
    dom,        \* the node forest, in document order
    nextId,     \* the identity of the next node created
    insts,      \* the component instances, in order of construction
    stack,      \* the constructor calls in progress, innermost last
    news,       \* top-level constructor calls made so far
    aborts,     \* the constructor call stacks unwound by an exception, with
                \* the exception's type
    sessions,   \* the animate() calls made so far, in order
    signals,    \* the targets of the animationend events dispatched so far
    onces,      \* the listenOnce() calls made so far, in order
    pings,      \* the events of the listened types dispatched so far
    ident,      \* the type identifier that is converted
    names       \* the tag identifier and the field name computed from it

vars == <<scn, dom, nextId, insts, stack, news, aborts, sessions, signals,
          onces, pings, ident, names>>
animVars == <<sessions, signals>>
onceVars == <<onces, pings>>
nameVars == <<ident, names>>

\* the forest parsed from a document, nodes numbered from 1
Parse(doc) ==
    [k \in 1..Len(doc) |-> Node(k, doc[k], doc[k].depth)]

\* the constructor's argument: nothing, a node or an instance
NoParent == [kind |-> "none", ref |-> 0]
NodeParent(id) == [kind |-> "node", ref |-> id]
InstParent(i) == [kind |-> "inst", ref |-> i]

\* a fresh instance of definition c, no $el yet; parent is the constructor's
\* first argument, decl the index of the declaration of the owner it is built
\* for, args the constructor's other arguments and passed the arguments
\* onCreate was called with
Instance(c, parent, decl) ==
    [def |-> c, el |-> 0, parent |-> parent, decl |-> decl,
     fields |-> <<>>, created |-> 0, args |-> <<>>, passed |-> <<>>]

\* the arguments the application adds to its top-level constructor calls
Args == <<"call", news + 1>>

\* a constructor call in progress: k is the index of the child declaration
\* __createChildren is at, found the node list of __createArrayOfChild and at
\* the index of its forEach; pool keeps, for the call of a declared child, the
\* unclaimed nodes of its tag under the owner when the call was made
Frame(i) ==
    [inst |-> i, pc |-> "bind", k |-> 1, found |-> <<>>, at |-> 1, pool |-> {}]

Top == stack[Len(stack)]
Caller == stack[Len(stack) - 1]
Idle == stack = <<>>

\* a field of an instance: absent, one instance or an array of instances
HasField(i, name) == name \in DOMAIN insts[i].fields
FieldOf(i, name) == insts[i].fields[name]

\* the instances whose construction has returned
Done(i) ==
    /\ i \in 1..Len(insts)
    /\ insts[i].el # 0
    /\ \A k \in 1..Len(stack) : stack[k].inst # i
    /\ \A a \in 1..Len(aborts) :
          \A j \in 1..Len(aborts[a].stack) : aborts[a].stack[j].inst # i

Init ==
    /\ scn \in 1..Len(Scenarios)
    /\ dom = Parse(Scenarios[scn].doc)
    /\ nextId = Len(Scenarios[scn].doc) + 1
    /\ insts = <<>>
    /\ stack = <<>>
    /\ news = 0
    /\ aborts = <<>>
    /\ sessions = <<>>
    /\ signals = <<>>
    /\ onces = <<>>
    /\ pings = <<>>
    /\ ident = <<>>
    /\ names = [tag |-> <<>>, child |-> <<>>]

(***************************************************************************)
(* __bindDOM and what it calls.                                            *)
(***************************************************************************)
\* a lookup that forgets :not([x-initialized])
QueryIgnoringMarker(d, pi, tag) == First(Matching(d, Desc(d, pi), tag, FALSE))

\* parent.$(tagName + ':not([x-initialized])'): the first descendant of the
\* parent's node, in document order, with the tag and without the marker
QueryUnclaimed(d, pi, tag) == First(Matching(d, Desc(d, pi), tag, TRUE))

\* this.$$(tagName + ':not([x-initialized])'): the node list of the unclaimed
\* descendants with the tag, in document order, as node identities
QueryAllUnclaimed(d, pi, tag) ==
    LET found == Ordered(Matching(d, Desc(d, pi), tag, TRUE))
    IN  [k \in 1..Len(found) |-> d[found[k]].id]

\* document.querySelector(tagName): the first node of the document with the tag
QueryDocument(d, tag) == First(Matching(d, DocumentIdx(d), tag, FALSE))

\* the index of the node __bindDOM assigns to this.$el, 0 for null
SelectEl(d, parent, tag) ==
    CASE parent.kind = "inst" -> QueryUnclaimed(d, IndexOf(d, insts[parent.ref].el), tag)
      [] parent.kind = "node" -> IndexOf(d, parent.ref)
      [] OTHER -> QueryDocument(d, tag)

\* this.$el.setAttribute('x-initialized', true)
SetInitialized(d, i) == [d EXCEPT ![i].init = TRUE]

\* a slot that keeps its content attribute
FillSlotKeepingMarker(d, s, content, nid) == SetInnerHTML(d, s, content, nid)

\* $content.innerHTML = currentContent; $content.removeAttribute('content')
FillSlot(d, s, content, nid) ==
    [SetInnerHTML(d, s, content, nid) EXCEPT ![s].slot = FALSE]

\* a merge that puts the template after the content instead of in its place
FromHtmlKeepingContent(d, i, c, nid) ==
    IF ThisHtml(c).null THEN [dom |-> d, nid |-> nid]
    ELSE LET html == Trim(ThisHtml(c).markup)
             currentContent == Trim(InnerHTML(d, i))
             d1 == SetInnerHTML(d, i, currentContent \o html, nid)
             n1 == nid + Len(currentContent) + Len(html)
             content == First(Slots(d1, Desc(d1, i)))
         IN  IF currentContent = <<>> \/ content = 0
             THEN [dom |-> d1, nid |-> n1]
             ELSE [dom |-> FillSlot(d1, content, currentContent, n1),
                   nid |-> n1 + Len(currentContent)]

\* __fromHtml on the node at index i: the forest and the next node identity
FromHtml(d, i, c, nid) ==
    IF ThisHtml(c).null THEN [dom |-> d, nid |-> nid]
    ELSE LET html == Trim(ThisHtml(c).markup)
             currentContent == Trim(InnerHTML(d, i))
             d1 == SetInnerHTML(d, i, html, nid)
             n1 == nid + Len(html)
             content == First(Slots(d1, Desc(d1, i)))
         IN  IF currentContent = <<>> \/ content = 0
             THEN [dom |-> d1, nid |-> n1]
             ELSE [dom |-> FillSlot(d1, content, currentContent, n1),
                   nid |-> n1 + Len(currentContent)]

\* a class that is assigned, as by className = style
ClassAssigned(cls, style) == <<style>>

\* classList.add: the token is appended unless the list has it
ClassAdd(cls, style) ==
    IF \E k \in 1..Len(cls) : cls[k] = style THEN cls ELSE Append(cls, style)

\* classList.remove
ClassRemove(cls, style) == SelectSeq(cls, LAMBDA x : x # style)

RECURSIVE ClassAddAll(_, _)
ClassAddAll(cls, styles) ==
    IF styles = <<>> THEN cls
    ELSE ClassAddAll(ClassAdd(cls, Head(styles)), Tail(styles))

\* __bindStyles(this.styles) on the node at index i
BindStyles(d, i, c) ==
    LET inherited == IF SuperStyles(c).null THEN d[i].cls
                     ELSE ClassAddAll(d[i].cls, SuperStyles(c).list)
    IN  IF ThisStyles(c).null THEN [d EXCEPT ![i].cls = inherited]
        ELSE [d EXCEPT ![i].cls = ClassAddAll(inherited, ThisStyles(c).list)]

\* an owner that catches the exception and goes on with its next declaration
UnwindToCaller(stk) ==
    [k \in 1..(Len(stk) - 1) |->
        IF k < Len(stk) - 1 THEN stk[k]
        ELSE IF stk[k].pc = "one"
             THEN [stk[k] EXCEPT !.pc = "children", !.k = @ + 1]
             ELSE [stk[k] EXCEPT !.pc = "each"]]

\* an exception no frame catches unwinds every constructor call in progress
Unwind(stk) == <<>>

\* a failure that takes the marker off the nodes the unwound calls had claimed
ThrowRollingBack ==
    /\ aborts' = Append(aborts, [stack |-> stack, error |-> "TypeError"])
    /\ stack' = <<>>
    /\ dom' = [n \in 1..Len(dom) |->
                 IF \E k \in 1..Len(stack) : insts[stack[k].inst].el = dom[n].id
                 THEN [dom[n] EXCEPT !.init = FALSE]
                 ELSE dom[n]]
    /\ UNCHANGED <<scn, nextId, insts, news>>

\* this.$el is null: setAttribute throws a TypeError
Throw ==
    /\ aborts' = Append(aborts, [stack |-> stack, error |-> "TypeError"])
    /\ stack' = Unwind(stack)
    /\ UNCHANGED <<scn, dom, nextId, insts, news>>

BindDOM ==
    /\ ~Idle
    /\ UNCHANGED <<animVars, onceVars, nameVars>>
    /\ Top.pc = "bind"
    /\ LET i == Top.inst
           c == insts[i].def
           el == SelectEl(dom, insts[i].parent, TagName(c))
       IN  IF el = 0 THEN Throw
           ELSE LET merged == FromHtml(SetInitialized(dom, el), el, c, nextId)
                IN  /\ dom' = BindStyles(merged.dom, el, c)
                    /\ nextId' = merged.nid
                    /\ insts' = [insts EXCEPT ![i].el = dom[el].id]
                    /\ stack' = [stack EXCEPT ![Len(stack)].pc = "children"]
                    /\ UNCHANGED <<scn, news, aborts>>

(***************************************************************************)
(* __createChildren, __createChild and __createArrayOfChild.               *)
(***************************************************************************)
\* the unclaimed nodes with a tag among the descendants of the node of
\* instance i
Pool(d, i, tag) ==
    {d[n].id : n \in Matching(d, Desc(d, IndexOf(d, insts[i].el)), tag, TRUE)}

\* new child(this) when the call stack of the engine is full: the call throws
\* a RangeError, which no frame catches
Overflow ==
    /\ aborts' = Append(aborts, [stack |-> stack, error |-> "RangeError"])
    /\ stack' = Unwind(stack)
    /\ UNCHANGED <<scn, dom, nextId, insts, news>>

\* new child(this): the constructor call of a declared child
PushChild(stk, awaiting) ==
    LET owner == stk[Len(stk)]
        child == ThisChildren(insts[owner.inst].def).list[owner.k]
    IN  Append([stk EXCEPT ![Len(stk)].pc = awaiting],
               [Frame(Len(insts) + 1) EXCEPT
                   !.pool = Pool(dom, owner.inst, ToTagName(Definitions[child.def].name))])

\* one step of this.children().forEach(child => this.__createChild(child))
CreateChildren ==
    /\ ~Idle
    /\ UNCHANGED <<animVars, onceVars, nameVars>>
    /\ Top.pc = "children"
    /\ LET i == Top.inst
           children == ThisChildren(insts[i].def)
       IN  IF children.null \/ Top.k > Len(children.list)
           THEN /\ stack' = [stack EXCEPT ![Len(stack)].pc = "created"]
                /\ UNCHANGED <<scn, dom, nextId, insts, news, aborts>>
           ELSE LET child == children.list[Top.k]
                    name == ToArrayName(Definitions[child.def].name)
                    tagName == ToTagName(Definitions[child.def].name)
                    foundChildren ==
                        QueryAllUnclaimed(dom, IndexOf(dom, insts[i].el), tagName)
                IN  IF child.many
                    THEN /\ insts' = [insts EXCEPT ![i].fields =
                                        (name :> [many |-> TRUE, of |-> <<>>]) @@ @]
                         /\ stack' = [stack EXCEPT ![Len(stack)].pc = "each",
                                                   ![Len(stack)].found = foundChildren,
                                                   ![Len(stack)].at = 1]
                         /\ UNCHANGED <<scn, dom, nextId, news, aborts>>
                    ELSE IF Len(stack) >= MaxStack THEN Overflow
                    ELSE /\ insts' = Append(insts, Instance(child.def, InstParent(i), Top.k))
                         /\ stack' = PushChild(stack, "one")
                         /\ UNCHANGED <<scn, dom, nextId, news, aborts>>

\* one step of foundChildren.forEach(c => this[name].push(new child(this)))
EachFound ==
    /\ ~Idle
    /\ UNCHANGED <<animVars, onceVars, nameVars>>
    /\ Top.pc = "each"
    /\ IF Top.at > Len(Top.found)
       THEN /\ stack' = [stack EXCEPT ![Len(stack)].pc = "children",
                                      ![Len(stack)].k = @ + 1]
            /\ UNCHANGED <<scn, dom, nextId, insts, news, aborts>>
       ELSE IF Len(stack) >= MaxStack THEN Overflow
       ELSE LET child == ThisChildren(insts[Top.inst].def).list[Top.k]
            IN  /\ insts' = Append(insts, Instance(child.def, InstParent(Top.inst), Top.k))
                /\ stack' = PushChild([stack EXCEPT ![Len(stack)].at = @ + 1], "many")
                /\ UNCHANGED <<scn, dom, nextId, news, aborts>>

\* the value the caller stores when new child(this) returns instance i
Store(old, caller, i) ==
    LET child == ThisChildren(old[caller.inst].def).list[caller.k]
        name == Definitions[child.def].name
    IN  IF caller.pc = "one"
        THEN [old EXCEPT ![caller.inst].fields =
                (ToChildName(name) :> [many |-> FALSE, of |-> <<i>>]) @@ @]
        ELSE [old EXCEPT ![caller.inst].fields =
                (ToArrayName(name) :>
                    [many |-> TRUE, of |-> Append(@[ToArrayName(name)].of, i)]) @@ @]

\* a hook that is handed the parent before the other arguments
OnCreateWithParent(old, i) ==
    IF ThisOnCreate(old[i].def)
    THEN [old EXCEPT ![i].created = @ + 1,
                     ![i].passed = <<old[i].parent>> \o old[i].args]
    ELSE old

\* if (this.onCreate) this.onCreate(...args)
OnCreate(old, i) ==
    IF ThisOnCreate(old[i].def)
    THEN [old EXCEPT ![i].created = @ + 1, ![i].passed = old[i].args]
    ELSE old

\* the end of the constructor: this.$el.xDebug = this, then onCreate; the
\* caller, if there is one, stores the new instance
Created ==
    /\ ~Idle
    /\ UNCHANGED <<animVars, onceVars, nameVars>>
    /\ Top.pc = "created"
    /\ LET i == Top.inst
           hooked == OnCreate(insts, i)
           el == IndexOf(dom, insts[i].el)
       IN  /\ dom' = [dom EXCEPT ![el].xDebug = i]
           /\ IF Len(stack) = 1
              THEN /\ insts' = hooked
                   /\ stack' = <<>>
              ELSE /\ insts' = Store(hooked, Caller, i)
                   /\ stack' = [k \in 1..(Len(stack) - 1) |->
                                  IF k = Len(stack) - 1 /\ Caller.pc = "one"
                                  THEN [Caller EXCEPT !.pc = "children", !.k = @ + 1]
                                  ELSE IF k = Len(stack) - 1
                                  THEN [Caller EXCEPT !.pc = "each"]
                                  ELSE stack[k]]
           /\ UNCHANGED <<scn, nextId, news, aborts>>

(***************************************************************************)
(* The calls of the surrounding application.                               *)
(***************************************************************************)
Allowed(c, how) ==
    /\ Call(c, how) \in Scenarios[scn].news
    /\ Scenarios[scn].once => \A i \in 1..Len(insts) : insts[i].def # c

\* new Definition(): the node is looked up in the document
NewInDocument(c) ==
    /\ Idle /\ news < MaxNews /\ Allowed(c, "document")
    /\ UNCHANGED <<animVars, onceVars, nameVars>>
    /\ insts' = Append(insts, [Instance(c, NoParent, 0) EXCEPT !.args = Args])
    /\ stack' = <<Frame(Len(insts) + 1)>>
    /\ news' = news + 1
    /\ UNCHANGED <<scn, dom, nextId, aborts>>

\* new Definition(element), for an element of the definition's tag
NewOnElement(c) ==
    /\ Idle /\ news < MaxNews /\ Allowed(c, "element")
    /\ UNCHANGED <<animVars, onceVars, nameVars>>
    /\ \E n \in Matching(dom, 1..Len(dom), TagName(c), FALSE) :
          /\ insts' = Append(insts, [Instance(c, NodeParent(dom[n].id), 0)
                                         EXCEPT !.args = Args])
          /\ stack' = <<Frame(Len(insts) + 1)>>
    /\ news' = news + 1
    /\ UNCHANGED <<scn, dom, nextId, aborts>>

\* new Definition(parent), for an instance whose construction has returned
NewInParent(c) ==
    /\ Idle /\ news < MaxNews /\ Allowed(c, "parent")
    /\ UNCHANGED <<animVars, onceVars, nameVars>>
    /\ \E p \in 1..Len(insts) :
          /\ Done(p)
          /\ IndexOf(dom, insts[p].el) # 0
          /\ insts' = Append(insts, [Instance(c, InstParent(p), 0)
                                         EXCEPT !.args = Args])
          /\ stack' = <<Frame(Len(insts) + 1)>>
    /\ news' = news + 1
    /\ UNCHANGED <<scn, dom, nextId, aborts>>

\* Definition.createElement(): new this(document.createElement(name))
CreateElement(c) ==
    /\ Idle /\ news < MaxNews /\ Allowed(c, "create")
    /\ UNCHANGED <<animVars, onceVars, nameVars>>
    /\ dom' = Append(dom, Node(nextId, E(TagName(c), 0), 0))
    /\ nextId' = nextId + 1
    /\ insts' = Append(insts, Instance(c, NodeParent(nextId), 0))
    /\ stack' = <<Frame(Len(insts) + 1)>>
    /\ news' = news + 1
    /\ UNCHANGED <<scn, aborts>>

New == \E c \in DefNames :
          NewInDocument(c) \/ NewOnElement(c) \/ NewInParent(c) \/ CreateElement(c)

(***************************************************************************)
(* animate and the animationend events of the host.                        *)
(***************************************************************************)
\* the ancestors of the node at index i
Ancestors(d, i) == {j \in 1..(i - 1) : End(d, j) >= i}

\* the elements of S in decreasing order
RECURSIVE Descending(_)
Descending(S) ==
    IF S = {} THEN <<>>
    ELSE LET m == CHOOSE x \in S : \A y \in S : y <= x
         IN  <<m>> \o Descending(S \ {m})

\* the propagation path of a bubbling event dispatched at index i: the
\* target, then its ancestors from the innermost to the root
Path(d, i) == <<i>> \o Descending(Ancestors(d, i))

\* the sessions whose listener is registered on the node id, oldest first
ListenersAt(ss, id) ==
    Ordered({s \in 1..Len(ss) : ss[s].listening /\ ss[s].el = id})

\* the listeners an event reaches along a path, in the order they are called
RECURSIVE ListenersOn(_, _, _)
ListenersOn(d, ss, path) ==
    IF path = <<>> THEN <<>>
    ELSE ListenersAt(ss, d[Head(path)].id) \o ListenersOn(d, ss, Tail(path))

\* the promise executor of animate, for a new session a on its target node
Executor(a) ==
    LET started == IF a.afterStart = "none" THEN <<"listen", "add">>
                   ELSE <<"listen", "add", "afterStart">>
    IN  [a EXCEPT !.listening = TRUE,
                  !.log = started,
                  !.promise = IF a.afterStart = "throws" THEN "rejected" ELSE "pending"]

\* resolve(): settles a pending promise, and nothing else
Resolve(a, carried) ==
    IF a.promise = "pending"
    THEN [a EXCEPT !.promise = "resolved", !.resolved = @ + 1,
                   !.carried = carried, !.log = Append(@, "resolve")]
    ELSE [a EXCEPT !.log = Append(@, "resolve")]

\* a listener that resolves and leaves the class on the target
ListenerKeepingClass(st, s, t) ==
    LET a == st.sessions[s]
        called == IF a.beforeEnd = "none" THEN [a EXCEPT !.log = Append(@, "end")]
                  ELSE [a EXCEPT !.log = @ \o <<"end", "beforeEnd">>]
        removed == [called EXCEPT !.log = @ \o <<"unlisten">>, !.listening = FALSE]
    IN  IF t # a.target THEN st
        ELSE IF a.beforeEnd = "throws"
        THEN [st EXCEPT !.sessions[s] = called]
        ELSE [st EXCEPT !.sessions[s] = Resolve(removed, TRUE)]

\* a listener that answers a completion signal from any node
ListenerOfAnyTarget(st, s, t) ==
    LET a == st.sessions[s]
        ti == IndexOf(st.dom, a.target)
        cleaned == [st.dom EXCEPT ![ti].cls = ClassRemove(@, a.cls)]
        called == IF a.beforeEnd = "none" THEN [a EXCEPT !.log = Append(@, "end")]
                  ELSE [a EXCEPT !.log = @ \o <<"end", "beforeEnd">>]
        removed == [called EXCEPT !.log = @ \o <<"remove", "unlisten">>,
                                  !.listening = FALSE]
    IN  IF a.beforeEnd = "throws"
        THEN [st EXCEPT !.sessions[s] = called]
        ELSE [dom |-> cleaned,
              sessions |-> [st.sessions EXCEPT ![s] =
                  Resolve(removed, \E k \in 1..Len(cleaned[ti].cls) :
                                        cleaned[ti].cls[k] = a.cls)]]

\* a listener that takes the class off the instance's own node, whatever the
\* target of the session
ListenerClearingOwnNode(st, s, t) ==
    LET a == st.sessions[s]
        ti == IndexOf(st.dom, a.target)
        ei == IndexOf(st.dom, a.el)
        cleaned == [st.dom EXCEPT ![ei].cls = ClassRemove(@, a.cls),
                                  ![ti].cls = ClassRemove(@, a.cls)]
        called == IF a.beforeEnd = "none" THEN [a EXCEPT !.log = Append(@, "end")]
                  ELSE [a EXCEPT !.log = @ \o <<"end", "beforeEnd">>]
        removed == [called EXCEPT !.log = @ \o <<"remove", "unlisten">>,
                                  !.listening = FALSE]
    IN  IF t # a.target THEN st
        ELSE IF a.beforeEnd = "throws"
        THEN [st EXCEPT !.sessions[s] = called]
        ELSE [dom |-> cleaned,
              sessions |-> [st.sessions EXCEPT ![s] =
                  Resolve(removed, \E k \in 1..Len(cleaned[ti].cls) :
                                        cleaned[ti].cls[k] = a.cls)]]

\* the listener of session s, called with an event whose target is node t;
\* st is the forest and the sessions
Listener(st, s, t) ==
    LET a == st.sessions[s]
        ti == IndexOf(st.dom, a.target)
        cleaned == [st.dom EXCEPT ![ti].cls = ClassRemove(@, a.cls)]
        called == IF a.beforeEnd = "none" THEN [a EXCEPT !.log = Append(@, "end")]
                  ELSE [a EXCEPT !.log = @ \o <<"end", "beforeEnd">>]
        removed == [called EXCEPT !.log = @ \o <<"remove", "unlisten">>,
                                  !.listening = FALSE]
    IN  IF t # a.target THEN st
        ELSE IF a.beforeEnd = "throws"
        THEN [st EXCEPT !.sessions[s] = called]
        ELSE [dom |-> cleaned,
              sessions |-> [st.sessions EXCEPT ![s] =
                  Resolve(removed, \E k \in 1..Len(cleaned[ti].cls) :
                                        cleaned[ti].cls[k] = a.cls)]]

\* a dispatch that arbitrates: only the listener registered first is called
DispatchToFirst(st, order, t) ==
    IF order = <<>> THEN st ELSE Listener(st, Head(order), t)

\* the listeners of an event with target t, called one after the other
RECURSIVE Dispatch(_, _, _)
Dispatch(st, order, t) ==
    IF order = <<>> THEN st
    ELSE Dispatch(Listener(st, Head(order), t), Tail(order), t)

\* the nodes an animate() call of the scenario names as $el; 0 when it
\* passes none
Targets ==
    {0} \cup {dom[n].id : n \in {n \in DocumentIdx(dom) :
                                    dom[n].tag \in Scenarios[scn].targets}}

\* this.animate(className, $el, afterStartCallback, beforeEndCallback)
Animate ==
    /\ Idle
    /\ Len(sessions) < MaxSessions
    /\ \E i \in 1..Len(insts), arg \in Targets, anim \in Scenarios[scn].anims :
          LET el == IF arg = 0 THEN insts[i].el ELSE arg
          IN  /\ Done(i)
              /\ insts[i].def \in Scenarios[scn].animators
              /\ IndexOf(dom, insts[i].el) \in DocumentIdx(dom)
              /\ sessions' = Append(sessions,
                     Executor([inst |-> i, el |-> insts[i].el, target |-> el,
                               cls |-> anim.cls, afterStart |-> anim.afterStart,
                               beforeEnd |-> anim.beforeEnd, listening |-> FALSE,
                               promise |-> "pending", resolved |-> 0,
                               carried |-> FALSE, log |-> <<>>,
                               since |-> Len(signals)]))
              /\ dom' = [dom EXCEPT ![IndexOf(dom, el)].cls = ClassAdd(@, anim.cls)]
    /\ UNCHANGED <<scn, nextId, insts, stack, news, aborts, signals>>
    /\ UNCHANGED <<onceVars, nameVars>>

\* the host dispatches animationend at an element of the document that an
\* animation can run on
AnimationEnd ==
    /\ Idle
    /\ Len(signals) < MaxSignals
    /\ sessions # <<>>
    /\ \E n \in DocumentIdx(dom) :
          /\ dom[n].tag \in Scenarios[scn].targets
             \/ \E c \in Scenarios[scn].animators : dom[n].tag = TagName(c)
          /\ LET st == Dispatch([dom |-> dom, sessions |-> sessions],
                                ListenersOn(dom, sessions, Path(dom, n)), dom[n].id)
             IN  /\ dom' = st.dom
                 /\ sessions' = st.sessions
                 /\ signals' = Append(signals, dom[n].id)
    /\ UNCHANGED <<scn, nextId, insts, stack, news, aborts>>
    /\ UNCHANGED <<onceVars, nameVars>>

(***************************************************************************)
(* listenOnce and the events its listeners hear.                           *)
(***************************************************************************)
\* the listenOnce listeners an event of a type reaches along a path, in the
\* order they are called
OnceListenersAt(hs, id, type) ==
    Ordered({h \in 1..Len(hs) :
                hs[h].listening /\ hs[h].el = id /\ hs[h].type = type})

RECURSIVE OnceListenersOn(_, _, _, _)
OnceListenersOn(d, hs, path, type) ==
    IF path = <<>> THEN <<>>
    ELSE OnceListenersAt(hs, d[Head(path)].id, type)
         \o OnceListenersOn(d, hs, Tail(path), type)

RECURSIVE DispatchOnce(_, _, _)

\* a listener that is still registered when its callback throws
OnceListenerLeaking(d, hs, h) ==
    LET removed == [hs EXCEPT ![h].listening = (hs[h].callback = "throws")]
        called == [removed EXCEPT ![h].calls = @ + 1]
    IN  IF hs[h].callback = "fires"
        THEN DispatchOnce(d, called,
                 OnceListenersOn(d, called, Path(d, IndexOf(d, hs[h].el)), hs[h].type))
        ELSE called

\* the listener of listenOnce call h: it removes itself, then calls the
\* callback, which may dispatch the event at the node again
OnceListener(d, hs, h) ==
    LET removed == [hs EXCEPT ![h].listening = FALSE]
        called == [removed EXCEPT ![h].calls = @ + 1]
    IN  IF hs[h].callback = "fires"
        THEN DispatchOnce(d, called,
                 OnceListenersOn(d, called, Path(d, IndexOf(d, hs[h].el)), hs[h].type))
        ELSE called

\* the listeners found when the dispatch began, called one after the other; a
\* listener removed in the meantime is passed over, and a listener that throws
\* does not stop the others
DispatchOnce(d, hs, order) ==
    IF order = <<>> THEN hs
    ELSE IF ~hs[Head(order)].listening THEN DispatchOnce(d, hs, Tail(order))
    ELSE DispatchOnce(d, OnceListener(d, hs, Head(order)), Tail(order))

\* the event types the application listens for
Types == {l.type : l \in Scenarios[scn].listens}

\* this.listenOnce(type, callback, $el)
ListenOnce ==
    /\ Idle
    /\ Len(onces) < MaxOnces
    /\ \E i \in 1..Len(insts), l \in Scenarios[scn].listens :
       \E el \in (Targets \ {0}) \cup {insts[i].el} :
          /\ Done(i)
          /\ IndexOf(dom, el) \in DocumentIdx(dom)
          /\ onces' = Append(onces,
                 [inst |-> i, el |-> el, type |-> l.type, callback |-> l.callback,
                  listening |-> TRUE, calls |-> 0, since |-> Len(pings)])
    /\ UNCHANGED <<scn, dom, nextId, insts, stack, news, aborts, pings>>
    /\ UNCHANGED <<animVars, nameVars>>

\* an event of a listened type is dispatched at an element of the document
Ping ==
    /\ Idle
    /\ Len(pings) < MaxPings
    /\ onces # <<>>
    /\ \E n \in DocumentIdx(dom), type \in Types :
          /\ dom[n].tag \in Scenarios[scn].targets \cup {TagName("XA")}
          /\ onces' = DispatchOnce(dom, onces,
                          OnceListenersOn(dom, onces, Path(dom, n), type))
          /\ pings' = Append(pings, [type |-> type, at |-> dom[n].id])
    /\ UNCHANGED <<scn, dom, nextId, insts, stack, news, aborts>>
    /\ UNCHANGED <<animVars, nameVars>>

Next ==
    \/ New \/ BindDOM \/ CreateChildren \/ EachFound \/ Created
    \/ Animate \/ AnimationEnd
    \/ ListenOnce \/ Ping

Spec == Init /\ [][Next]_vars

(***************************************************************************)
(* The conversions of type identifiers, applied to every identifier of a   *)
(* small alphabet.                                                         *)
(***************************************************************************)
Alphabet == {"X", "B", "a", "b"}

\* the sequences over Alphabet of length n
RECURSIVE Words(_)
Words(n) ==
    IF n = 0 THEN {<<>>}
    ELSE {Append(w, c) : w \in Words(n - 1), c \in Alphabet}

\* the class names: identifiers that begin with an uppercase letter
Idents ==
    {w \in UNION {Words(n) : n \in 1..MaxIdent} : IsUpper(w[1])}

NameInit ==
    /\ ident \in Idents
    /\ names = [tag |-> <<>>, child |-> <<>>]
    /\ scn = 1 /\ dom = <<>> /\ nextId = 1 /\ insts = <<>> /\ stack = <<>>
    /\ news = 0 /\ aborts = <<>> /\ sessions = <<>> /\ signals = <<>>
    /\ onces = <<>> /\ pings = <<>>

\* XElement.__toTagName(name)
CallToTagName ==
    /\ names.tag = <<>>
    /\ names' = [names EXCEPT !.tag = ToTagName(ident)]
    /\ UNCHANGED <<scn, dom, nextId, insts, stack, news, aborts, ident>>
    /\ UNCHANGED <<animVars, onceVars>>

\* the static __toChildName() of the class named ident
CallToChildName ==
    /\ names.child = <<>>
    /\ names' = [names EXCEPT !.child = ToChildName(ident)]
    /\ UNCHANGED <<scn, dom, nextId, insts, stack, news, aborts, ident>>
    /\ UNCHANGED <<animVars, onceVars>>

NameNext == CallToTagName \/ CallToChildName

NameSpec == NameInit /\ [][NameNext]_vars

(***************************************************************************)
(* Properties.                                                             *)
(***************************************************************************)
Insts == 1..Len(insts)
Bound(i) == insts[i].el # 0

\* n is a descendant of p in the forest d
IsDescendant(d, p, n) == p < n /\ \A m \in (p + 1)..n : d[m].depth > d[p].depth

\* the identities of the nodes of a forest
Ids(d) == {d[n].id : n \in 1..Len(d)}

\* whether a sequence has an element
Has(seq, x) == \E k \in 1..Len(seq) : seq[k] = x
Count(seq, x) == Cardinality({k \in 1..Len(seq) : seq[k] = x})

\* C1: every surface node is the surface node of at most one component
\* instance, however the instances were constructed
C1_AtMostOneInstancePerNode ==
    \A i, j \in Insts : (Bound(i) /\ insts[i].el = insts[j].el) => i = j

\* C2: a node that has been bound carries the claimed marker, and a second
\* top-level construction of the same definition by document lookup does not
\* select the node an earlier one has claimed
C2_SecondLookupSkipsClaimed ==
    /\ \A i \in Insts :
          (Bound(i) /\ IndexOf(dom, insts[i].el) # 0)
              => dom[IndexOf(dom, insts[i].el)].init
    /\ \A i, j \in Insts :
          (/\ i < j /\ Bound(i) /\ Bound(j)
           /\ insts[i].def = insts[j].def
           /\ insts[i].parent.kind = "none" /\ insts[j].parent.kind = "none")
              => insts[i].el # insts[j].el

\* the step in which __bindDOM binds the instance on top of the stack
Binds == ~Idle /\ Top.pc = "bind" /\ Len(stack') = Len(stack)

\* C3: a child constructed with a parent instance is bound to the first node,
\* in document order, among the descendants of the parent's node that has the
\* child's tag identifier and no claimed marker, and of the nodes that were in
\* the forest only that one becomes claimed
C3_ChildBindsFirstUnclaimed ==
    [][(Binds /\ insts[Top.inst].parent.kind = "inst")
        => LET i == Top.inst
               p == IndexOf(dom, insts[insts[i].parent.ref].el)
               tag == ToTagName(Definitions[insts[i].def].name)
               pool == {n \in 1..Len(dom) :
                           IsDescendant(dom, p, n) /\ dom[n].tag = tag /\ ~dom[n].init}
           IN  /\ pool # {}
               /\ \E n \in pool :
                     /\ \A m \in pool : n <= m
                     /\ insts'[i].el = dom[n].id
                     /\ \A k \in 1..Len(dom), k2 \in 1..Len(dom') :
                           dom'[k2].id = dom[k].id
                               => (dom'[k2].init <=> (dom[k].init \/ k = n))]_vars

\* C3 witness: a child is bound past an earlier node of its tag that was
\* claimed in the document from the start
C3_Witness ==
    \E i \in Insts :
        /\ insts[i].parent.kind = "inst" /\ Bound(i)
        /\ LET n == IndexOf(dom, insts[i].el)
               p == IndexOf(dom, insts[insts[i].parent.ref].el)
           IN  /\ n # 0 /\ p # 0
               /\ \E m \in (p + 1)..(n - 1) :
                     /\ dom[m].tag = dom[n].tag
                     /\ dom[m].id <= Len(Scenarios[scn].doc)
                     /\ Scenarios[scn].doc[dom[m].id].init

\* the constructor of a singular declared child is about to bind, and no
\* unclaimed node of its tag is left under the owner's node
C4_NoMatch ==
    /\ Len(stack) >= 2 /\ Top.pc = "bind" /\ Caller.pc = "one"
    /\ LET p == IndexOf(dom, insts[Caller.inst].el)
       IN  ~\E n \in 1..Len(dom) :
              /\ IsDescendant(dom, p, n)
              /\ dom[n].tag = ToTagName(Definitions[insts[Top.inst].def].name)
              /\ ~dom[n].init

\* a constructor call stack that was unwound from a singular declared child
SingularAborts ==
    {a \in 1..Len(aborts) :
        Len(aborts[a].stack) >= 2
        /\ aborts[a].stack[Len(aborts[a].stack) - 1].pc = "one"}

GridUnclaimedRows ==
    {k \in 1..Len(GridDoc) : GridDoc[k].tag = TRow /\ ~GridDoc[k].init}
GridClaimedRows ==
    {k \in 1..Len(GridDoc) : GridDoc[k].tag = TRow /\ GridDoc[k].init}

\* __createChildren has returned for instance i
ChildrenBuilt(i) ==
    Done(i) \/ \E k \in 1..Len(stack) : stack[k].inst = i /\ stack[k].pc = "created"

\* C5: for a grid that declares three repeated Row children, constructed over
\* five unclaimed and two claimed row nodes, the pluralized Row field holds five
\* instances when the children are built, each bound to a distinct node that
\* was unclaimed, and no claimed node is bound
C5_GridHoldsFiveRows ==
    (/\ Scenarios[scn].doc = GridDoc
     /\ Cardinality(GridUnclaimedRows) = 5 /\ Cardinality(GridClaimedRows) = 2
     /\ Len(insts) >= 1 /\ insts[1].def = "Grid" /\ ChildrenBuilt(1))
        => LET rows == ToArrayName(Definitions["Row"].name)
           IN  /\ HasField(1, rows)
               /\ Len(FieldOf(1, rows).of) = 5
               /\ \A a, b \in 1..Len(FieldOf(1, rows).of) :
                     LET ia == FieldOf(1, rows).of[a]
                         ib == FieldOf(1, rows).of[b]
                     IN  /\ insts[ia].def = "Row"
                         /\ insts[ia].el \in GridUnclaimedRows
                         /\ insts[ia].el = insts[ib].el => a = b

\* the iterations of __createArrayOfChild's forEach that have returned
Iterated(f) == IF f.pc = "each" THEN f.at - 1 ELSE f.at - 2

\* C6: a repeated child declaration that scans N unclaimed nodes constructs one
\* instance per scanned node, the i-th bound to the i-th scanned node, stores
\* them in order in the pluralized field, and raises no error
C6_OneInstancePerScannedNode ==
    /\ \A k \in 1..Len(stack) :
          stack[k].pc \in {"each", "many"}
              => LET f == stack[k]
                     child == ThisChildren(insts[f.inst].def).list[f.k]
                     name == ToArrayName(Definitions[child.def].name)
                 IN  /\ HasField(f.inst, name)
                     /\ FieldOf(f.inst, name).many
                     /\ Len(FieldOf(f.inst, name).of) = Iterated(f)
                     /\ \A n \in 1..Iterated(f) :
                           insts[FieldOf(f.inst, name).of[n]].el = f.found[n]
    /\ \A a \in 1..Len(aborts) :
          Len(aborts[a].stack) >= 2
              => aborts[a].stack[Len(aborts[a].stack) - 1].pc # "many"

\* the template T with its first slot element filled with the content C and
\* stripped of its content attribute; T itself when it has no slot element
Filled(T, C) ==
    LET slots == {k \in 1..Len(T) : T[k].tag # TextTag /\ T[k].tag # WsTag /\ T[k].slot}
    IN  IF slots = {} THEN T
        ELSE LET s == CHOOSE k \in slots : \A m \in slots : k <= m
                 after == {k \in (s + 1)..Len(T) : T[k].depth <= T[s].depth}
                 rest == IF after = {} THEN Len(T) + 1
                         ELSE CHOOSE k \in after : \A m \in after : k <= m
             IN  SubSeq(T, 1, s - 1)
                 \o <<[T[s] EXCEPT !.slot = FALSE]>>
                 \o [k \in 1..Len(C) |-> [C[k] EXCEPT !.depth = @ + T[s].depth + 1]]
                 \o SubSeq(T, rest, Len(T))

\* C7: when an instance of a definition with a template binds a node whose
\* captured content C is not empty, the node's content afterwards is the
\* template with its slot element holding C and no longer marked; without a
\* slot element it is the template alone; and no error is raised
C7_MergeKeepsContentInSlot ==
    [][Binds
        => LET i == Top.inst
               c == insts[i].def
               el == IndexOf(dom, insts'[i].el)
               C == Trim(InnerHTML(dom, el))
           IN  (~ThisHtml(c).null /\ C # <<>>)
                  => /\ InnerHTML(dom', IndexOf(dom', insts'[i].el))
                          = Filled(Trim(ThisHtml(c).markup), C)
                     /\ aborts' = aborts]_vars

\* C7 witness: a card's text and row were moved into its slot, and an item's
\* text was dropped for want of a slot
C7_Witness ==
    /\ Scenarios[scn].doc = CardDoc
    /\ \E i, j \in Insts :
          /\ insts[i].def = "Card" /\ insts[i].el = 2 /\ IndexOf(dom, 2) # 0
          /\ InnerHTML(dom, IndexOf(dom, 2))
                = <<El(TDiv, 0, FALSE, FALSE, <<"head">>), E(TDiv, 0), Text(1), E(TRow, 1)>>
          /\ insts[j].def = "Item" /\ insts[j].el = 11 /\ IndexOf(dom, 11) # 0
          /\ InnerHTML(dom, IndexOf(dom, 11)) = <<E(TDiv, 0)>>

\* the position of a class in a class list, 0 when absent
Position(cls, x) == First({k \in 1..Len(cls) : cls[k] = x})

\* C8: the node bound by an instance of XB, which extends XA, carries the
\* style of XA and the style of XB, the style of XA applied first
C8_BaseStylesBeforeDerived ==
    \A i \in Insts :
        (insts[i].def = "XB" /\ Done(i) /\ IndexOf(dom, insts[i].el) # 0)
            => LET cls == dom[IndexOf(dom, insts[i].el)].cls
               IN  /\ Position(cls, "a1") # 0
                   /\ Position(cls, "b1") # 0
                   /\ Position(cls, "a1") < Position(cls, "b1")

\* C9: animate registers its listener, applies the class and then calls
\* afterStart, all within the call; the listener, on a completion signal for
\* the target, calls beforeEnd, then removes the class, then resolves; the
\* promise resolves once however many signals follow, and when it resolves
\* the target does not carry the class
C9_AnimateOrder ==
    \A s \in 1..Len(sessions) :
        LET a == sessions[s] IN
        /\ Len(a.log) >= 2 /\ a.log[1] = "listen" /\ a.log[2] = "add"
        /\ IF a.afterStart = "none" THEN ~Has(a.log, "afterStart")
           ELSE Len(a.log) >= 3 /\ a.log[3] = "afterStart"
                /\ Count(a.log, "afterStart") = 1
        /\ \A k \in 1..Len(a.log) :
              a.log[k] = "resolve"
                  => /\ k > 3 /\ a.log[k - 1] = "unlisten" /\ a.log[k - 2] = "remove"
                     /\ IF a.beforeEnd = "none" THEN a.log[k - 3] = "end"
                        ELSE a.log[k - 3] = "beforeEnd" /\ a.log[k - 4] = "end"
        /\ Count(a.log, "resolve") <= 1
        /\ a.resolved <= 1
        /\ a.promise = "resolved" <=> a.resolved = 1
        /\ a.promise = "resolved" => ~a.carried
        /\ (Has(a.log, "end") /\ a.afterStart # "throws" /\ a.beforeEnd # "throws")
              => a.promise = "resolved"

\* C9 witness: a session with both callbacks has resolved, and a second
\* completion signal for its target followed
C9_Witness ==
    /\ Len(sessions) = 1
    /\ sessions[1].afterStart = "ok" /\ sessions[1].beforeEnd = "ok"
    /\ sessions[1].promise = "resolved"
    /\ Len(signals) = 2
    /\ signals[1] = sessions[1].target /\ signals[2] = sessions[1].target

\* C10: once the completion signal for the target has reached the listener,
\* the class has been removed from the target, whatever the callbacks did
C10_ClassRemovedWhateverHappens ==
    \A s \in 1..Len(sessions) :
        Has(sessions[s].log, "end") => Has(sessions[s].log, "remove")

\* the step in which the host dispatches animationend at node t
Signals(t) == signals' = Append(signals, t)

\* the classes of the node with identity id
ClassesOf(d, id) == d[IndexOf(d, id)].cls

\* the listener of session a hears an event dispatched at node t: it is
\* registered on a.el, which is t or an ancestor of t
Hears(d, a, t) ==
    \E n \in 1..Len(d) :
        d[n].id = t /\ \E k \in 1..Len(Path(d, n)) : d[Path(d, n)[k]].id = a.el

\* the completion signals dispatched since session a began
After(a) == (a.since + 1)..Len(signals)

\* C11: a completion signal from a node other than the awaited target leaves
\* the session as it is: pending or not as before, beforeEnd not called, the
\* class still where it was, the listener still registered; and a session that
\* saw such a signal resolves on the later signal from its target
C11_MismatchIgnored ==
    /\ [][\A t \in Ids(dom) : Signals(t)
            => \A s \in 1..Len(sessions) :
                  sessions[s].target # t
                      => /\ sessions'[s] = sessions[s]
                         /\ Has(ClassesOf(dom, sessions[s].target), sessions[s].cls)
                                => Has(ClassesOf(dom', sessions[s].target),
                                       sessions[s].cls)]_vars
    /\ [](\A s \in 1..Len(sessions) :
            LET a == sessions[s] IN
            (/\ a.afterStart # "throws" /\ a.beforeEnd # "throws"
             /\ Hears(dom, a, a.target)
             /\ \E k1, k2 \in After(a) :
                    k1 < k2 /\ signals[k1] # a.target /\ signals[k2] = a.target)
                => a.promise = "resolved" /\ ~a.listening)

\* C11 witness: a session on a row inside the component is pending after a
\* signal from the component's own node reached its listener, or has resolved
\* on the signal from the row that followed
C11_Witness ==
    /\ Len(sessions) = 1 /\ Len(signals) = 2
    /\ sessions[1].since = 0
    /\ sessions[1].target # sessions[1].el
    /\ Hears(dom, sessions[1], sessions[1].target)
    /\ signals[1] = sessions[1].el /\ signals[2] = sessions[1].target
    /\ sessions[1].promise = "resolved"

\* C12: whatever node the target of animate is, once the host has signalled
\* the completion of the animation on the target the promise is resolved
C12_SignalResolves ==
    \A s \in 1..Len(sessions) :
        LET a == sessions[s] IN
        (/\ a.afterStart # "throws" /\ a.beforeEnd # "throws"
         /\ \E k \in After(a) : signals[k] = a.target)
            => a.promise = "resolved"

\* two sessions that wait on different targets
Apart(s1, s2) ==
    /\ s1 # s2
    /\ sessions[s1].target # sessions[s2].target
    /\ sessions[s1].promise = "pending" /\ sessions[s2].promise = "pending"
    /\ sessions[s1].listening /\ sessions[s2].listening

\* C20: of two sessions pending on different targets, a completion signal for
\* the target of one calls the beforeEnd of that one, removes its class and
\* resolves its promise, and leaves the other pending, its listener registered,
\* its beforeEnd not called and its class on its target
C20_SessionsIndependent ==
    [][\A s1, s2 \in 1..Len(sessions) :
          (Apart(s1, s2) /\ Signals(sessions[s1].target))
              => LET a == sessions[s1]
                     b == sessions[s2]
                 IN  /\ sessions'[s2] = b
                     /\ Has(ClassesOf(dom, b.target), b.cls)
                            => Has(ClassesOf(dom', b.target), b.cls)
                     /\ (Hears(dom, a, a.target) /\ a.beforeEnd # "throws")
                            => /\ sessions'[s1].promise = "resolved"
                               /\ ~sessions'[s1].listening
                               /\ ~Has(ClassesOf(dom', a.target), a.cls)
                               /\ Count(sessions'[s1].log, "beforeEnd")
                                    = IF a.beforeEnd = "none" THEN 0 ELSE 1]_vars

\* C20 witness: of two sessions on different targets that carry the same
\* class, the later one has resolved on its signal and the earlier one is
\* pending with the class on its target
C20_Witness ==
    /\ Len(sessions) = 2 /\ Len(signals) = 1
    /\ sessions[1].target # sessions[2].target
    /\ sessions[1].cls = sessions[2].cls
    /\ sessions[1].beforeEnd = "ok" /\ sessions[2].beforeEnd = "ok"
    /\ signals[1] = sessions[2].target
    /\ sessions[2].promise = "resolved" /\ sessions[2].since = 0
    /\ sessions[1].promise = "pending" /\ sessions[1].listening
    /\ Has(ClassesOf(dom, sessions[1].target), sessions[1].cls)
    /\ ~Has(sessions[1].log, "beforeEnd")

\* an event dispatched at node t passes the node el: el is t or an ancestor
Passes(d, t, el) ==
    \E n \in 1..Len(d) :
        d[n].id = t /\ \E k \in 1..Len(Path(d, n)) : d[Path(d, n)[k]].id = el

\* the events of the type of listenOnce call h dispatched since the call that
\* pass its node
Occurrences(h) ==
    {k \in (onces[h].since + 1)..Len(pings) :
        pings[k].type = onces[h].type /\ Passes(dom, pings[k].at, onces[h].el)}

\* C13: the callback of a listenOnce call is called for one occurrence of its
\* event at its node and the listener is then no longer registered, however
\* many occurrences follow, whether the callback returns, throws or dispatches
\* the event again; before the first occurrence it is registered and not called
C13_ListenOnceOnce ==
    \A h \in 1..Len(onces) :
        /\ onces[h].calls <= 1
        /\ onces[h].calls = 1 <=> ~onces[h].listening
        /\ Occurrences(h) # {} => onces[h].calls = 1
        /\ onces[h].calls = 1
              => \E k \in (onces[h].since + 1)..Len(pings) :
                    pings[k].type = onces[h].type

\* C13 witness: two occurrences of the event followed two listenOnce calls on
\* one node, one with a callback that throws and one with a callback that
\* dispatches the event again, and each callback was called once
C13_Witness ==
    /\ Len(onces) = 2 /\ Len(pings) = 2
    /\ onces[1].el = onces[2].el /\ onces[1].type = onces[2].type
    /\ {onces[1].callback, onces[2].callback} = {"throws", "fires"}
    /\ \A h \in 1..2 : Cardinality(Occurrences(h)) = 2 /\ onces[h].calls = 1

\* the uppercase letters of a name other than its first letter, up to index i
Boundaries(name, i) == {j \in 2..i : IsUpper(name[j])}

\* t is name in lower case with a hyphen before each uppercase letter other
\* than the first
IsHyphenated(t, name) ==
    /\ Len(t) = Len(name) + Cardinality(Boundaries(name, Len(name)))
    /\ \A i \in 1..Len(name) :
          LET at == i + Cardinality(Boundaries(name, i))
          IN  /\ t[at] = ToLowerCase(name[i])
              /\ (i \in Boundaries(name, i)) => t[at - 1] = "-"

\* the pieces of a tag identifier between its hyphens, first letters restored
\* to upper case, joined: the way back from a tag to an upper-camel identifier
RECURSIVE Camel(_, _)
Camel(t, i) ==
    IF i > Len(t) THEN <<>>
    ELSE IF t[i] = "-" THEN Camel(t, i + 1)
    ELSE (IF (i = 1 \/ t[i - 1] = "-") /\ IsLower(t[i])
          THEN <<UpperSeq[CHOOSE k \in 1..Len(LowerSeq) : LowerSeq[k] = t[i]]>>
          ELSE <<t[i]>>)
         \o Camel(t, i + 1)

AnyConstructorName ==
    <<"A","n","y","C","o","n","s","t","r","u","c","t","o","r","N","a","m","e">>
XSendTransactionModal ==
    <<"X","S","e","n","d","T","r","a","n","s","a","c","t","i","o","n",
      "M","o","d","a","l">>
XAnyWidget == <<"X","A","n","y","W","i","d","g","e","t">>

\* C14: __toTagName maps an upper-camel identifier to its letters in lower
\* case with a hyphen before each uppercase letter other than the first, the
\* pieces between the hyphens are the pieces of the identifier in order, and
\* no other upper-camel identifier has the same tag
C14_TagNameHyphenates ==
    /\ ToTagName(AnyConstructorName)
          = <<"a","n","y","-","c","o","n","s","t","r","u","c","t","o","r",
              "-","n","a","m","e">>
    /\ ToTagName(XSendTransactionModal)
          = <<"x","-","s","e","n","d","-","t","r","a","n","s","a","c","t","i","o","n",
              "-","m","o","d","a","l">>
    /\ names.tag # <<>>
          => /\ names.tag = ToTagName(ident)
             /\ IsHyphenated(names.tag, ident)
             /\ Camel(names.tag, 1) = ident
             /\ \A other \in Idents : ToTagName(other) = names.tag => other = ident

\* C14 witness: the tag of an identifier with two uppercase letters after its
\* first and a lowercase letter that is the lower case of one of them
C14_Witness ==
    /\ ident = <<"B", "b", "B", "X">>
    /\ names.tag = <<"b", "b", "-", "b", "-", "x">>

\* the field name of an identifier that loses its first letter whenever its
\* first two letters are uppercase, whatever the first letter is
FieldStrippingAnyLetter(name) ==
    LET n == IF Len(name) >= 2 /\ IsUpper(name[1]) /\ IsUpper(name[2])
             THEN Tail(name) ELSE name
    IN  <<"$", ToLowerCase(n[1])>> \o SubSeq(n, 2, Len(n))

\* C15 as stated: __toChildName strips the leading letter of every identifier
\* that begins with two uppercase letters, whatever the first one is
C15_StripsAnyLeadingLetter ==
    names.child # <<>> => names.child = FieldStrippingAnyLetter(ident)

\* C15: __toChildName strips the leading letter exactly when it is an X
\* followed by an uppercase letter; every other identifier keeps all its
\* letters; the first remaining letter is lower-cased and $ is prefixed
C15_StripsLeadingX ==
    /\ ToChildName(XAnyWidget) = <<"$","a","n","y","W","i","d","g","e","t">>
    /\ ToChildName(XSendTransactionModal)
          = <<"$","s","e","n","d","T","r","a","n","s","a","c","t","i","o","n",
              "M","o","d","a","l">>
    /\ names.child # <<>>
          => LET stripped == Len(ident) >= 2 /\ ident[1] = "X" /\ IsUpper(ident[2])
                 from == IF stripped THEN 2 ELSE 1
             IN  /\ names.child = ToChildName(ident)
                 /\ Len(names.child) = Len(ident) - from + 2
                 /\ names.child[1] = "$"
                 /\ names.child[2] = ToLowerCase(ident[from])
                 /\ \A k \in 3..Len(names.child) : names.child[k] = ident[k + from - 2]

\* C15 witness: an identifier that begins with two uppercase letters, the
\* first of them not an X, has kept all its letters
C15_Witness ==
    /\ ident = <<"B", "X", "a", "b">>
    /\ names.child = <<"$", "b", "X", "a", "b">>

\* instance j was constructed for a declaration of instance i, or of an
\* instance constructed for one
RECURSIVE Under(_, _)
Under(j, i) ==
    /\ insts[j].parent.kind = "inst" /\ insts[j].decl > 0
    /\ insts[j].parent.ref = i \/ Under(insts[j].parent.ref, i)

\* the construction of instance j has returned, its hook called
Finished(j) ==
    /\ insts[j].el # 0
    /\ insts[j].created = 1
    /\ \A k \in 1..Len(stack) : stack[k].inst # j

\* the step in which a declared child binds
ChildBinds == Binds /\ Len(stack) >= 2

\* C16: when a declared child binds, every child its owner constructed before
\* it was declared no later and has finished with all the instances under it,
\* and the node it binds carried no marker and is the node of no instance
C16_DepthFirstInOrder ==
    [][ChildBinds
        => LET i == Top.inst
               owner == Caller.inst
               n == IndexOf(dom, insts'[i].el)
           IN  /\ insts[i].parent = InstParent(owner)
               /\ \A j \in Insts \ {i} :
                     Under(j, owner)
                         => /\ Finished(j)
                            /\ j < i
                            /\ insts[j].parent.ref = owner
                                  => insts[j].decl <= insts[i].decl
               /\ ~dom[n].init
               /\ \A j \in Insts : insts[j].el # dom[n].id]_vars

\* C16 witness: the third declared child of a tree has bound the row after the
\* box, the row inside the box being claimed by the child of the box
C16_Witness ==
    /\ Scenarios[scn].doc = TreeDoc
    /\ \E t, b, r1, r2 \in Insts :
          /\ insts[t].def = "Tree" /\ insts[b].def = "Box"
          /\ insts[r1].def = "Row" /\ insts[r2].def = "Row"
          /\ insts[b].parent = InstParent(t) /\ insts[r1].parent = InstParent(b)
          /\ insts[r2].parent = InstParent(t) /\ insts[r2].decl = 3
          /\ Bound(r1) /\ Bound(r2) /\ r1 < r2
          /\ IndexOf(dom, insts[r1].el) < IndexOf(dom, insts[r2].el)
          /\ IsDescendant(dom, IndexOf(dom, insts[b].el), IndexOf(dom, insts[r1].el))

\* the number of nodes a merge leaves in the node: those of the template, and
\* when the template has a slot those of the captured content, once, in place
\* of what the template has in the slot
MergedSize(c, C) ==
    LET T == Trim(ThisHtml(c).markup)
        slots == {k \in 1..Len(T) : IsElement(T[k]) /\ T[k].slot}
    IN  IF C = <<>> \/ slots = {} THEN Len(T)
        ELSE Len(T) - (End(T, First(slots)) - First(slots)) + Len(C)

\* C17: the nodes of the forest are replaced only in the step that binds an
\* instance, which no instance takes twice and which comes before any child
\* of the instance exists; after it the node holds the template, and the
\* captured content at most once
C17_MergeOnceBeforeChildren ==
    /\ [][\A i \in Insts :
             /\ insts[i].el # 0 => insts'[i].el = insts[i].el
             /\ (\E n \in 1..Len(dom) : dom[n].id \notin Ids(dom'))
                   => Binds]_vars
    /\ [][Binds
            => LET i == Top.inst
                   c == insts[i].def
                   C == Trim(InnerHTML(dom, IndexOf(dom, insts'[i].el)))
               IN  /\ insts[i].el = 0
                   /\ \A j \in Insts : insts[j].parent # InstParent(i)
                   /\ ~ThisHtml(c).null
                         => Len(InnerHTML(dom', IndexOf(dom', insts'[i].el)))
                              = MergedSize(c, C)]_vars

\* C17 witness: the child of a box is bound to the row that the template of
\* the box brought, and the text of the box is in the slot once
C17_Witness ==
    /\ Scenarios[scn].doc = TreeDoc
    /\ \E b, r \in Insts :
          /\ insts[b].def = "Box" /\ insts[r].def = "Row"
          /\ insts[r].parent = InstParent(b)
          /\ insts[r].el > Len(TreeDoc)
          /\ IndexOf(dom, insts[b].el) # 0
          /\ InnerHTML(dom, IndexOf(dom, insts[b].el))
                = <<El(TRow, 0, TRUE, FALSE, <<>>), E(TDiv, 0), Text(1)>>

\* the step in which the constructor of instance i calls its hook and returns
Creates(i) == ~Idle /\ Top.pc = "created" /\ Top.inst = i

C19_PoolShrinks ==
    [][(Len(stack) >= 2 /\ Top.pc = "created" /\ Len(stack') = Len(stack) - 1)
        => LET after == Pool(dom', Caller.inst, TagName(insts[Top.inst].def))
           IN  after \subseteq Top.pool /\ after # Top.pool]_vars

\* the node the instance on top of the stack binds in a binding step
BoundNode == insts'[Top.inst].el

\* C21: binding only adds classes: every class a node has before an instance
\* binds it is on the node after __bindDOM has merged the template and
\* applied the styles, and the classes the node had keep their order
C21_BindingKeepsStyleTags ==
    [][Binds =>
        LET before == ClassesOf(dom, BoundNode)
            after == ClassesOf(dom', BoundNode)
        IN  /\ Len(before) <= Len(after)
            /\ \A k \in 1..Len(before) : after[k] = before[k]
            /\ \A x \in {after[k] : k \in (Len(before) + 1)..Len(after)} :
                  /\ ~Has(before, x)
                  /\ Has(ThisStyles(insts[Top.inst].def).list, x)]_vars

\* a derived instance is bound to the node that carried "b1" and "old": the
\* node has exactly the classes it had, "b1" not added a second time
C21_Witness ==
    /\ Scenarios[scn].doc = StyleDoc
    /\ \E i \in Insts :
          /\ insts[i].def = "XB" /\ insts[i].el = 2
          /\ ClassesOf(dom, 2) = <<"b1", "old">>

\* the instances the owner holds in its fields
Held(i) ==
    UNION {{insts[i].fields[name].of[k] : k \in 1..Len(insts[i].fields[name].of)} :
              name \in DOMAIN insts[i].fields}

\* C22: every instance constructed for a declaration of an owner is, once its
\* construction has returned, held in a field of the owner
C22_ChildrenStayReferenced ==
    \A j \in Insts :
        (insts[j].decl > 0 /\ insts[j].parent.kind = "inst" /\ Finished(j))
            => j \in Held(insts[j].parent.ref)

\* C23: a construction ends by returning or with the binding failure of a
\* missing node, the TypeError of __bindDOM: its constructor calls never fill
\* the call stack, whatever the size of the stack
C23_ConstructionEnds ==
    \A a \in 1..Len(aborts) : aborts[a].error = "TypeError"

\* the instances of the constructions that a binding failure abandoned: those
\* of the unwound calls and those constructed under them
Abandoned ==
    {j \in Insts :
        \E a \in 1..Len(aborts) :
            /\ aborts[a].error = "TypeError"
            /\ \E k \in 1..Len(aborts[a].stack) :
                  j = aborts[a].stack[k].inst \/ Under(j, aborts[a].stack[k].inst)}

\* the nodes the abandoned constructions claimed
AbandonedNodes == {insts[j].el : j \in Abandoned} \ {0}

\* C24: a binding failure changes no node and no instance; the nodes that the
\* abandoned construction claimed keep the marker and the declared styles as
\* long as they are in the forest; and no later lookup for an unclaimed node,
\* of a single child or of a node list, selects one of them
C24_AbortKeepsEverything ==
    /\ [][(~Idle /\ Top.pc = "bind" /\ aborts' # aborts)
            => (dom' = dom /\ insts' = insts /\ nextId' = nextId)]_vars
    /\ [](\A j \in Abandoned :
            (Bound(j) /\ IndexOf(dom, insts[j].el) # 0)
                => /\ dom[IndexOf(dom, insts[j].el)].init
                   /\ \A k \in 1..Len(ThisStyles(insts[j].def).list) :
                         Has(ClassesOf(dom, insts[j].el),
                             ThisStyles(insts[j].def).list[k]))
    /\ [][(Binds /\ insts[Top.inst].parent.kind = "inst")
            => BoundNode \notin AbandonedNodes]_vars
    /\ [][(~Idle /\ Top.pc = "children" /\ Len(stack') = Len(stack)
            /\ stack'[Len(stack)].pc = "each")
            => \A k \in 1..Len(stack'[Len(stack)].found) :
                  stack'[Len(stack)].found[k] \notin AbandonedNodes]_vars

\* a construction failed after a card had been bound, merged with its
\* template and given its style; a later construction over the same form
\* failed at once because that card was still claimed
C24_Witness ==
    /\ Len(aborts) = 2
    /\ \E j \in Abandoned :
          /\ insts[j].def = "Card" /\ Bound(j)
          /\ IndexOf(dom, insts[j].el) # 0
          /\ dom[IndexOf(dom, insts[j].el)].init
          /\ Has(ClassesOf(dom, insts[j].el), "card")
          /\ InnerHTML(dom, IndexOf(dom, insts[j].el))
                = Filled(Trim(ThisHtml("Card").markup), <<Text(0)>>)
          /\ LET stk == aborts[2].stack
             IN  /\ Len(stk) >= 2
                 /\ insts[stk[Len(stk)].inst].def = "Card"
                 /\ ~Bound(stk[Len(stk)].inst)
                 /\ insts[stk[Len(stk) - 1].inst].el = insts[insts[j].parent.ref].el

\* the sessions of instance i whose listener is registered on its node, and
\* those whose promise is pending
Registered(i) ==
    {s \in 1..Len(sessions) : sessions[s].inst = i /\ sessions[s].listening}
Pending(i) ==
    {s \in 1..Len(sessions) : sessions[s].inst = i /\ sessions[s].promise = "pending"}

\* C25: the listener of a session whose promise has resolved is not
\* registered, and an instance's node has as many animationend listeners of
\* animate as the instance has pending sessions
C25_NoListenerLeak ==
    /\ \A s \in 1..Len(sessions) :
          sessions[s].promise = "resolved" => ~sessions[s].listening
    /\ \A i \in Insts : Cardinality(Registered(i)) = Cardinality(Pending(i))

\* two sessions of one instance pending on the same target with different
\* classes
Together(s1, s2) ==
    /\ s1 # s2
    /\ sessions[s1].inst = sessions[s2].inst
    /\ sessions[s1].target = sessions[s2].target
    /\ sessions[s1].cls # sessions[s2].cls
    /\ sessions[s1].promise = "pending" /\ sessions[s2].promise = "pending"
    /\ sessions[s1].listening /\ sessions[s2].listening

\* C26: of two sessions of one instance pending on the same target with
\* different classes, one completion signal for the target that reaches the
\* instance's node settles both: each beforeEnd that is given is called once,
\* both classes are off the target, both listeners are removed and both
\* promises are resolved, once each
C26_OneSignalSettlesBoth ==
    [][\A s1, s2 \in 1..Len(sessions) :
          LET a == sessions[s1]
              b == sessions[s2]
          IN  (/\ Together(s1, s2) /\ Signals(a.target)
               /\ Hears(dom, a, a.target)
               /\ a.beforeEnd # "throws" /\ b.beforeEnd # "throws")
                  => \A s \in {s1, s2} :
                        /\ sessions'[s].promise = "resolved"
                        /\ sessions'[s].resolved = 1
                        /\ ~sessions'[s].listening
                        /\ ~Has(ClassesOf(dom', a.target), sessions[s].cls)
                        /\ Count(sessions'[s].log, "beforeEnd")
                             = IF sessions[s].beforeEnd = "none" THEN 0 ELSE 1]_vars

\* two sessions with the classes "pulse" and "fade" on one target were both
\* settled by the one signal dispatched
C26_Witness ==
    /\ Len(sessions) = 2 /\ Len(signals) = 1
    /\ sessions[1].inst = sessions[2].inst
    /\ sessions[1].target = sessions[2].target
    /\ sessions[1].cls # sessions[2].cls
    /\ sessions[1].since = 0 /\ sessions[2].since = 0
    /\ signals[1] = sessions[1].target
    /\ sessions[1].promise = "resolved" /\ sessions[2].promise = "resolved"
    /\ ~sessions[1].listening /\ ~sessions[2].listening
    /\ ~Has(ClassesOf(dom, sessions[1].target), sessions[1].cls)
    /\ ~Has(ClassesOf(dom, sessions[1].target), sessions[2].cls)

====
